---- MODULE Spec2Model ----
(***************************************************************************)
(* TSDF fusion volume (fusion.py): the voxel grid container, the CUDA      *)
(* integrate kernel, the vectorised CPU integrate path, reset_visible,     *)
(* get_volume and the constructor.                                         *)
(*                                                                         *)
(* Floating point values are modelled exactly: tsdf, occl and dist as      *)
(* rationals <<n, d>> (d > 0; stored in lowest terms), weights, depths,    *)
(* coordinates and packed colours as integers.  Lengths are in metres.     *)
(***************************************************************************)
EXTENDS Integers, Naturals, Sequences, FiniteSets, TLC

VARIABLES
  constructed,      \* "pending" | "ok" | "failed": outcome of __init__
  in_shape_ok,      \* constructor input: vol_bnds.shape == (3, 2)
  in_vol_bnds,      \* constructor input: <<<<min,max>>, <<min,max>>, <<min,max>>>>
  in_voxel_size,    \* constructor input: voxel_size
  in_use_gpu,       \* constructor input: use_gpu
  gpu_mode,         \* self.gpu_mode
  vol_dim,          \* self._vol_dim
  vol_origin,       \* self._vol_origin
  voxel_size,       \* self._voxel_size
  trunc_margin,     \* self._trunc_margin
  cpu,              \* host arrays  [tsdf, occl, weight, color, mask], index 0..N-1
  gpu,              \* device arrays [tsdf, occl, weight, color, mask], index 0..N
                    \* (cell N is the word that follows each buffer)
  err,              \* exception raised by the last call, or "none"
  n_integrate,      \* number of integrate calls so far
  n_reset,          \* number of reset_visible calls so far
  n_get_volume,     \* number of get_volume calls so far
  seen_ever,        \* history: voxel passed frustum + depth test since construction
  seen_reset,       \* history: the same, since the last reset_visible
  excluded,         \* history: in every frame so far the voxel was out of view
  sum_w,            \* history: sum of obs_weight over the voxel's tsdf updates
  sum_ws,           \* history: sum of obs_weight * dist over the voxel's tsdf updates
  max_delta,        \* history: max of -100 and the disparities observed at the voxel
  swapped,          \* history: mask and occl had the last two frames come in the other order
  returned,         \* the arrays handed out by the last get_volume (by reference), or <<>>
  fusion_gpu_mode,  \* FUSION_GPU_MODE: PyCUDA could be imported
  device,           \* limits of cuda.Device(0): threads per block, grid dimensions
  launched          \* history: the threads of the kernel launches of the last integrate

vars == <<constructed, in_shape_ok, in_vol_bnds, in_voxel_size, in_use_gpu,
          gpu_mode, vol_dim, vol_origin, voxel_size, trunc_margin, cpu, gpu,
          err, n_integrate, n_reset, n_get_volume, seen_ever, seen_reset, excluded,
          sum_w, sum_ws, max_delta, swapped, returned, fusion_gpu_mode, device,
          launched>>

-----------------------------------------------------------------------------
(* Bounds of the model *)

MaxIntegrate == 2     \* integrate calls per behaviour
MaxReset == 1         \* reset_visible calls per behaviour
MaxGetVolume == 1     \* get_volume calls per behaviour

-----------------------------------------------------------------------------
(* Exact arithmetic standing for the float arithmetic of the source *)

Abs(x) == IF x < 0 THEN -x ELSE x

RECURSIVE Gcd(_, _)
Gcd(a, b) == IF b = 0 THEN a ELSE Gcd(b, a % b)

Rat(n, d) ==
  LET s == IF d < 0 THEN -1 ELSE 1
      g == Gcd(Abs(n), Abs(d))
  IN  <<(s * n) \div g, (s * d) \div g>>

Norm(a) == Rat(a[1], a[2])

R(n) == <<n, 1>>

RAdd(a, b) == <<a[1] * b[2] + b[1] * a[2], a[2] * b[2]>>
RSub(a, b) == <<a[1] * b[2] - b[1] * a[2], a[2] * b[2]>>
RMul(a, b) == <<a[1] * b[1], a[2] * b[2]>>
RDiv(a, b) == IF b[1] < 0 THEN <<-(a[1] * b[2]), -(a[2] * b[1])>>
              ELSE <<a[1] * b[2], a[2] * b[1]>>
RLt(a, b) == a[1] * b[2] < b[1] * a[2]
RLe(a, b) == a[1] * b[2] <= b[1] * a[2]
RMin(a, b) == IF RLt(b, a) THEN b ELSE a
RMax(a, b) == IF RLt(a, b) THEN b ELSE a
RFloor(a) == a[1] \div a[2]

\* roundf: nearest integer, halves away from zero
RoundF(a) ==
  IF a[1] >= 0 THEN (2 * a[1] + a[2]) \div (2 * a[2])
  ELSE -((2 * (-a[1]) + a[2]) \div (2 * a[2]))

\* np.round: nearest integer, halves to even
RoundNp(a) ==
  LET f == RFloor(a)
      twice == RSub(RMul(R(2), a), R(2 * f))     \* 2 * (a - f), in [0, 2)
  IN  IF RLt(twice, R(1)) THEN f
      ELSE IF RLt(R(1), twice) THEN f + 1
      ELSE IF f % 2 = 0 THEN f ELSE f + 1

\* unsigned bitwise or
RECURSIVE BitOr(_, _)
BitOr(a, b) ==
  IF a = 0 THEN b
  ELSE IF b = 0 THEN a
  ELSE (IF a % 2 = 1 \/ b % 2 = 1 THEN 1 ELSE 0) + 2 * BitOr(a \div 2, b \div 2)

\* largest value of a 32-bit int
IntMax == 2^30 - 1 + 2^30
IntMin == -IntMax - 1

\* (int) roundf(f * (x / z) + c) on the device: x / 0 is +-inf or NaN, the
\* float-to-int conversion saturates and maps NaN to 0  (f > 0)
PixGpu(f, x, z, c) ==
  IF z = 0
  THEN IF x = 0 \/ f = 0 THEN 0 ELSE IF (x > 0) = (f > 0) THEN IntMax ELSE IntMin
  ELSE RoundF(RAdd(RMul(R(f), RDiv(R(x), R(z))), R(c)))

\* int(np.round(x * f / z + c)) in cam2pix: the conversion of +-inf and NaN
\* gives the most negative integer
PixCpu(f, x, z, c) ==
  IF z = 0 THEN IntMin
  ELSE RoundNp(RAdd(RDiv(R(x * f), R(z)), R(c)))

-----------------------------------------------------------------------------
(* Geometry *)

NVox(dim) == dim[1] * dim[2] * dim[3]

\* rows of the 3x3 rotation block and the translation column of a 4x4 pose
Pose(rot, t) == [rot |-> rot, t |-> t]

Intr(fx, fy, cx, cy) == [fx |-> fx, fy |-> fy, cx |-> cx, cy |-> cy]

\* single precision: 24 bits of mantissa
Mantissa == 2^24

\* largest power of two not above n, n >= 1
Pow2Floor(n) == 2^(CHOOSE e \in 0..30 : 2^e <= n /\ (e = 30 \/ 2^(e + 1) > n))

\* the multiple of u nearest to a / b, ties to the even multiple;
\* m = floor(a / (u * b))
F32Nearest(m, u, a, b) ==
  IF 2 * (a - m * u * b) < u * b \/ (2 * (a - m * u * b) = u * b /\ m % 2 = 0)
  THEN m * u
  ELSE (m + 1) * u

\* (float) n of an int n
F32Magnitude(n, u) == F32Nearest(n \div u, u, n, 1)
F32Int(n) ==
  IF Abs(n) < Mantissa THEN n
  ELSE IF n > 0 THEN F32Magnitude(n, Pow2Floor(n) \div (Mantissa \div 2))
  ELSE -F32Magnitude(-n, Pow2Floor(-n) \div (Mantissa \div 2))

\* floor (down) or ceiling of the single-precision quotient of the floats
\* a >= b > 0 with integer values; q0 = floor(a / b) lies in the binade of p.
\* Below 2^23 the quotient rounds onto the next integer when it is within
\* half an ulp, p / 2^24, of it.
F32DivBinade(a, b, q0, p, down) ==
  IF p < Mantissa \div 2
  THEN IF down
       THEN IF b - (a % b) <= (b * p) \div Mantissa THEN q0 + 1 ELSE q0
       ELSE IF a % b <= (b * p) \div Mantissa THEN q0 ELSE q0 + 1
  ELSE F32Nearest(q0 \div (p \div (Mantissa \div 2)), p \div (Mantissa \div 2), a, b)

F32DivRound(a, b, down) ==
  IF a % b = 0 /\ a \div b < Mantissa THEN a \div b
  ELSE IF a \div b = 0 THEN (IF down THEN 0 ELSE 1)
  ELSE F32DivBinade(a, b, a \div b, Pow2Floor(a \div b), down)

\* floorf(a / b) of floats a and b > 0 with integer values
F32DivFloor(a, b) ==
  IF a >= 0 THEN F32DivRound(a, b, TRUE) ELSE -F32DivRound(-a, b, FALSE)

VoxelZ(voxel_idx, voxel_x, voxel_y, dy, dz) ==
  <<voxel_x, voxel_y, F32Int(voxel_idx - voxel_x * dy * dz - voxel_y * dz)>>
VoxelYZ(voxel_idx, voxel_x, dy, dz) ==
  VoxelZ(voxel_idx, voxel_x,
         F32DivFloor(F32Int(voxel_idx - voxel_x * dy * dz), F32Int(dz)), dy, dz)

\* kernel: voxel index -> grid coordinates; vol_dim arrives as floats, the
\* index and the divisors are cast to float before floorf of the division
VoxelCoords(voxel_idx, dim) ==
  VoxelYZ(voxel_idx,
          F32DivFloor(F32Int(voxel_idx), F32Int(F32Int(dim[2]) * F32Int(dim[3]))),
          F32Int(dim[2]), F32Int(dim[3]))

\* voxel grid coordinates to world coordinates
Vox2World(origin, vox, size) ==
  <<origin[1] + vox[1] * size, origin[2] + vox[2] * size, origin[3] + vox[3] * size>>

\* world coordinates to camera coordinates: R^T (p - t)
World2Cam(pt, pose) ==
  LET tmp == <<pt[1] - pose.t[1], pt[2] - pose.t[2], pt[3] - pose.t[3]>>
      m == pose.rot
  IN  <<m[1][1] * tmp[1] + m[2][1] * tmp[2] + m[3][1] * tmp[3],
        m[1][2] * tmp[1] + m[2][2] * tmp[2] + m[3][2] * tmp[3],
        m[1][3] * tmp[1] + m[2][3] * tmp[2] + m[3][3] * tmp[3]>>

ImH(f) == Len(f.depth_im)
ImW(f) == Len(f.depth_im[1])

\* image[pixel_y*im_w + pixel_x] of a row-major image
At(im, pixel_x, pixel_y) == im[pixel_y + 1][pixel_x + 1]

\* fold of the colour image into one channel: c[2]*65536 + c[1]*256 + c[0]
ColorConst == 256 * 256
FoldColor(c) == c[3] * ColorConst + c[2] * 256 + c[1]

-----------------------------------------------------------------------------
(* The CUDA kernel, one thread *)

CamPt(voxel_idx, f) ==
  World2Cam(Vox2World(vol_origin, VoxelCoords(voxel_idx, vol_dim), voxel_size), f.cam_pose)

RgbPt(voxel_idx, f) ==
  World2Cam(Vox2World(vol_origin, VoxelCoords(voxel_idx, vol_dim), voxel_size), f.rgb_pose)

InImage(p, f) == ~(p[1] < 0 \/ p[1] >= ImW(f) \/ p[2] < 0 \/ p[2] >= ImH(f))

\* variant: the upper clamp is missing
Dist_NoClamp(depth_diff, margin) == Rat(depth_diff, margin)

\* fmin(1.0f, depth_diff/trunc_margin)
Dist(depth_diff, margin) == RMin(R(1), Rat(depth_diff, margin))

\* (int) roundf(intr[0][0]*(x/z)+intr[0][2]), (int) roundf(intr[1][1]*(y/z)+intr[1][2])
GpuPixel(intr, pt) ==
  <<PixGpu(intr.fx, pt[1], pt[3], intr.cx), PixGpu(intr.fy, pt[2], pt[3], intr.cy)>>

\* what one thread computes from the frame for its voxel, and which of its
\* returns it takes:
\*   observed: neither the frustum return nor the invalid depth return
\*   updated:  nor the truncation return
\*   colored:  nor the second frustum return (rgb pixel, depth camera z)
GpuTests(cam_pt, pixel, rgb_pixel, f) ==
  LET in_frustum == InImage(pixel, f) /\ ~(cam_pt[3] < 0)
      depth_value == IF in_frustum THEN At(f.depth_im, pixel[1], pixel[2]) ELSE 0
      observed == in_frustum /\ depth_value # 0
      depth_diff == depth_value - cam_pt[3]
      updated == observed /\ ~(depth_diff < -trunc_margin)
      colored == updated /\ InImage(rgb_pixel, f) /\ ~(cam_pt[3] < 0)
  IN  [cam_pt |-> cam_pt,
       pixel |-> pixel,
       observed |-> observed,
       new_mask |-> IF observed THEN At(f.mask_im, pixel[1], pixel[2]) ELSE 0,
       depth_diff |-> depth_diff,
       updated |-> updated,
       dist |-> Dist(depth_diff, trunc_margin),
       colored |-> colored,
       new_color |-> IF colored THEN FoldColor(At(f.color_im, rgb_pixel[1], rgb_pixel[2]))
                     ELSE 0]

GpuProject(cam_pt, rgb_pt, f) ==
  GpuTests(cam_pt, GpuPixel(f.cam_intr, cam_pt), GpuPixel(f.rgb_intr, rgb_pt), f)

GpuVoxel(voxel_idx, f) == GpuProject(CamPt(voxel_idx, f), RgbPt(voxel_idx, f), f)

UnpackB(c) == c \div (256 * 256)
UnpackG(c) == (c - UnpackB(c) * 256 * 256) \div 256
UnpackR(c) == c - UnpackB(c) * 256 * 256 - UnpackG(c) * 256

\* fmin(roundf((old*w_old + obs_weight*new) / w_new), 255)
GpuChannel(old, new, w_old, obs_weight, w_new) ==
  LET m == RoundF(RDiv(R(old * w_old + obs_weight * new), R(w_new)))
  IN  IF m < 255 THEN m ELSE 255

\* variant: the green channel is shifted like the blue one
GpuColor_BadPack(old_color, new_color, w_old, obs_weight, w_new) ==
  LET new_b == GpuChannel(UnpackB(old_color), UnpackB(new_color), w_old, obs_weight, w_new)
      new_g == GpuChannel(UnpackG(old_color), UnpackG(new_color), w_old, obs_weight, w_new)
      new_r == GpuChannel(UnpackR(old_color), UnpackR(new_color), w_old, obs_weight, w_new)
  IN  new_b * 256 * 256 + new_g * 256 * 256 + new_r

GpuColor(old_color, new_color, w_old, obs_weight, w_new) ==
  LET new_b == GpuChannel(UnpackB(old_color), UnpackB(new_color), w_old, obs_weight, w_new)
      new_g == GpuChannel(UnpackG(old_color), UnpackG(new_color), w_old, obs_weight, w_new)
      new_r == GpuChannel(UnpackR(old_color), UnpackR(new_color), w_old, obs_weight, w_new)
  IN  new_b * 256 * 256 + new_g * 256 + new_r

\* variant: the old value is not weighted by w_old
GpuTsdf_Unweighted(tsdf_old, w_old, obs_weight, dist, w_new) ==
  Norm(RDiv(RAdd(tsdf_old, RMul(R(obs_weight), dist)), R(w_new)))

GpuTsdf(tsdf_old, w_old, obs_weight, dist, w_new) ==
  Norm(RDiv(RAdd(RMul(tsdf_old, R(w_old)), RMul(R(obs_weight), dist)), R(w_new)))

\* variant: the last disparity overwrites the maximum
GpuOccl_Overwrite(occl_old, depth_diff) == R(depth_diff)

GpuOccl(occl_old, depth_diff) == RMax(occl_old, R(depth_diff))

\* variant: the last mask overwrites the union
GpuMask_Overwrite(old_mask, new_mask) == new_mask

GpuMask(old_mask, new_mask) == BitOr(old_mask, new_mask)

\* the thread returns at once only when voxel_idx > vol_dim_x*vol_dim_y*vol_dim_z
ThreadRuns(voxel_idx, dim) == ~(voxel_idx > NVox(dim))

\* the writes of a thread that did not return at once; o is what it computed
KernelWrites(D, voxel_idx, f, o) ==
  LET w_old == D.weight[voxel_idx]
      w_new == w_old + f.obs_weight
  IN  [mask |-> IF o.observed
                THEN [D.mask EXCEPT ![voxel_idx] = GpuMask(@, o.new_mask)]
                ELSE D.mask,
       occl |-> IF o.observed
                THEN [D.occl EXCEPT ![voxel_idx] = GpuOccl(@, o.depth_diff)]
                ELSE D.occl,
       weight |-> IF o.updated
                  THEN [D.weight EXCEPT ![voxel_idx] = w_new]
                  ELSE D.weight,
       tsdf |-> IF o.updated
                THEN [D.tsdf EXCEPT ![voxel_idx] =
                        GpuTsdf(@, w_old, f.obs_weight, o.dist, w_new)]
                ELSE D.tsdf,
       color |-> IF o.colored
                 THEN [D.color EXCEPT ![voxel_idx] =
                         GpuColor(@, o.new_color, w_old, f.obs_weight, w_new)]
                 ELSE D.color]

\* one thread of the kernel on the device arrays D
KernelThread(D, voxel_idx, f) ==
  IF ~ThreadRuns(voxel_idx, vol_dim) THEN D
  ELSE KernelWrites(D, voxel_idx, f, GpuVoxel(voxel_idx, f))

-----------------------------------------------------------------------------
(* Kernel launches of one integrate call *)

\* largest limits of a device of the model
MaxThreadsPerBlock == 4
MaxGridDimX == 2
MaxGridDimY == 2
MaxGridDimZ == 2

\* gpu_dev.MAX_THREADS_PER_BLOCK, gpu_dev.MAX_GRID_DIM_X/Y/Z
Dev(t, gx, gy, gz) == [max_threads_per_block |-> t, max_grid_dim |-> <<gx, gy, gz>>]

Min2(a, b) == IF a < b THEN a ELSE b
CeilDiv(a, b) == (a + b - 1) \div b
FloorCbrt(n) == CHOOSE k \in 0..n : k * k * k <= n /\ (k + 1) * (k + 1) * (k + 1) > n
\* floor(sqrt(a / b))
FloorSqrtDiv(a, b) == CHOOSE k \in 0..a : k * k * b <= a /\ (k + 1) * (k + 1) * b > a

NBlocks(dim) == CeilDiv(NVox(dim), device.max_threads_per_block)
GridDimX(dim) == Min2(device.max_grid_dim[1], FloorCbrt(NBlocks(dim)))
GridDimY(dim) == Min2(device.max_grid_dim[2], FloorSqrtDiv(NBlocks(dim), GridDimX(dim)))
GridDimZ(dim) ==
  Min2(device.max_grid_dim[3], CeilDiv(NBlocks(dim), GridDimX(dim) * GridDimY(dim)))
BlocksPerLaunch(dim) == GridDimX(dim) * GridDimY(dim) * GridDimZ(dim)
NGpuLoops(dim) == CeilDiv(NVox(dim), BlocksPerLaunch(dim) * device.max_threads_per_block)

\* blockIdx.z*gridDim.y*gridDim.x + blockIdx.y*gridDim.x + blockIdx.x
BlockIdx(bx, by, bz, dim) == bz * GridDimY(dim) * GridDimX(dim) + by * GridDimX(dim) + bx

\* voxel index computed by thread threadIdx.x of block block_idx in launch gpu_loop_idx
ThreadVoxelIdx(gpu_loop_idx, block_idx, thread_idx, dim) ==
  gpu_loop_idx * BlocksPerLaunch(dim) * device.max_threads_per_block
    + block_idx * device.max_threads_per_block + thread_idx

\* the voxel indices of the threads of all launches, launch by launch (the
\* launches are serialised), block by block
ThreadVoxelIdxs(dim) ==
  LET per == BlocksPerLaunch(dim) * device.max_threads_per_block
      loops == NGpuLoops(dim)
  IN  [n \in 1..(loops * per) |->
         ThreadVoxelIdx((n - 1) \div per, ((n - 1) % per) \div device.max_threads_per_block,
                        (n - 1) % device.max_threads_per_block, dim)]

\* every thread of every launch of one integrate call, with the voxel index
\* it computes
LaunchThreads(dim) ==
  {[gpu_loop_idx |-> l, blockIdx |-> <<bx, by, bz>>, threadIdx |-> t,
    voxel_idx |-> ThreadVoxelIdx(l, BlockIdx(bx, by, bz, dim), t, dim)] :
     l \in 0..(NGpuLoops(dim) - 1),
     bx \in 0..(GridDimX(dim) - 1), by \in 0..(GridDimY(dim) - 1),
     bz \in 0..(GridDimZ(dim) - 1),
     t \in 0..(device.max_threads_per_block - 1)}

RECURSIVE RunThreads(_, _, _, _)
RunThreads(D, idxs, n, f) ==
  IF n > Len(idxs) THEN D
  ELSE RunThreads(KernelThread(D, idxs[n], f), idxs, n + 1, f)

\* for gpu_loop_idx in range(self._n_gpu_loops): self._cuda_integrate(...)
GpuIntegrate(D, f) == RunThreads(D, ThreadVoxelIdxs(vol_dim), 1, f)

-----------------------------------------------------------------------------
(* The CPU path of integrate *)

\* vox_coords: row r of the (N, 3) array is the voxel with flat index r, so
\* the camera point of row r is CamPt(r, f)

\* cam2pix
CpuPixel(intr, pt) ==
  <<PixCpu(intr.fx, pt[1], pt[3], intr.cx), PixCpu(intr.fy, pt[2], pt[3], intr.cy)>>

ValidPix(pix, pix_z, f) ==
  pix[1] >= 0 /\ pix[1] < ImW(f) /\ pix[2] >= 0 /\ pix[2] < ImH(f) /\ pix_z > 0

DepthVal(pix, valid_pix, f) == IF valid_pix THEN At(f.depth_im, pix[1], pix[2]) ELSE 0

ValidPts(depth_val) == depth_val # 0

CpuDist(depth_diff) == Rat(depth_diff, trunc_margin)

\* the row of a voxel in the vectors of the CPU path
CpuRow(cam_pt, pix, rgb_pix, depth_val) ==
  [cam_pt |-> cam_pt,
   pix |-> pix,
   rgb_pix |-> rgb_pix,
   depth_val |-> depth_val,
   valid_pts |-> ValidPts(depth_val),
   depth_diff |-> depth_val - cam_pt[3],
   dist |-> CpuDist(depth_val - cam_pt[3])]

CpuTests(cam_pt, pix, rgb_pix, f) ==
  CpuRow(cam_pt, pix, rgb_pix, DepthVal(pix, ValidPix(pix, cam_pt[3], f), f))

CpuProject(cam_pt, rgb_pt, f) ==
  CpuTests(cam_pt, CpuPixel(f.cam_intr, cam_pt), CpuPixel(f.rgb_intr, rgb_pt), f)

CpuVoxel(v, f) == CpuProject(CamPt(v, f), RgbPt(v, f), f)

\* integrate_tsdf: the allocation of w_new is commented out, so the name
\* w_new is unbound inside the jitted function
WNewBound == FALSE

IntegrateTsdf(tsdf_vol, occl_vol, dist, w_old, obs_weight) ==
  IF ~WNewBound THEN [exc |-> "NameError"]
  ELSE LET w_new == w_old + obs_weight
       IN  [exc |-> "none",
            tsdf |-> Norm(RDiv(RAdd(RMul(R(w_old), tsdf_vol), RMul(R(obs_weight), dist)),
                               R(w_new))),
            w_new |-> w_new,
            occl |-> RMax(occl_vol, dist)]

\* numpy index i into an axis of length n: negative indices count from the end
NpIndexOk(i, n) == i >= -n /\ i < n
NpIndex(i, n) == IF i < 0 THEN i + n ELSE i

CpuChannel(old, new, w_old, obs_weight, w_new) ==
  LET m == RoundNp(RDiv(R(w_old * old + obs_weight * new), R(w_new)))
  IN  IF m < 255 THEN m ELSE 255

CpuColor(old_color, new_color, w_old, obs_weight, w_new) ==
  LET new_b == CpuChannel(UnpackB(old_color), UnpackB(new_color), w_old, obs_weight, w_new)
      new_g == CpuChannel(UnpackG(old_color), UnpackG(new_color), w_old, obs_weight, w_new)
      new_r == CpuChannel(UnpackR(old_color), UnpackR(new_color), w_old, obs_weight, w_new)
  IN  new_b * ColorConst + new_g * 256 + new_r

\* the writes of the CPU path; c[v] is the row of voxel v
CpuWrites(H, f, c) ==
  LET V == DOMAIN H.tsdf
      res == [v \in V |-> IntegrateTsdf(H.tsdf[v], H.occl[v], c[v].dist,
                                        H.weight[v], f.obs_weight)]
      H1 == [H EXCEPT
               !.weight = [v \in V |-> IF c[v].valid_pts THEN res[v].w_new ELSE @[v]],
               !.tsdf = [v \in V |-> IF c[v].valid_pts THEN res[v].tsdf ELSE @[v]],
               !.occl = [v \in V |-> IF c[v].valid_pts THEN res[v].occl ELSE @[v]]]
      rgbOk == \A v \in V : c[v].valid_pts =>
                 /\ NpIndexOk(c[v].rgb_pix[1], ImW(f))
                 /\ NpIndexOk(c[v].rgb_pix[2], ImH(f))
      new(im, v) == At(im, NpIndex(c[v].rgb_pix[1], ImW(f)), NpIndex(c[v].rgb_pix[2], ImH(f)))
  IN  IF ~WNewBound THEN [H |-> H, exc |-> "NameError"]
      ELSE IF ~rgbOk THEN [H |-> H1, exc |-> "IndexError"]
      ELSE [H |-> [H1 EXCEPT
                     !.color = [v \in V |-> IF c[v].valid_pts
                                  THEN CpuColor(@[v], FoldColor(new(f.color_im, v)),
                                                H.weight[v], f.obs_weight, res[v].w_new)
                                  ELSE @[v]],
                     !.mask = [v \in V |-> IF c[v].valid_pts
                                  THEN BitOr(@[v], new(f.mask_im, v))
                                  ELSE @[v]]],
            exc |-> "none"]

\* the host arrays H and the exception after integrate(f) on the CPU path
CpuIntegrate(H, f) == CpuWrites(H, f, [v \in DOMAIN H.tsdf |-> CpuVoxel(v, f)])

-----------------------------------------------------------------------------
(* Construction *)

RCeil(a) == -((-a[1]) \div a[2])

\* np.ceil((max - min) / voxel_size).astype(int) on one axis; a division by
\* zero gives +-inf or NaN, whose conversion to int depends on the platform
AxisDims(lo, hi, size) ==
  IF size # 0 THEN {RCeil(Rat(hi - lo, size))}
  ELSE IF hi > lo THEN {IntMin, IntMax}
  ELSE IF hi < lo THEN {IntMin}
  ELSE {IntMin, 0}

CtorDims(bnds, size) ==
  {<<dx, dy, dz>> : dx \in AxisDims(bnds[1][1], bnds[1][2], size),
                    dy \in AxisDims(bnds[2][1], bnds[2][2], size),
                    dz \in AxisDims(bnds[3][1], bnds[3][2], size)}

\* the exception __init__ raises, or "none"
CtorExc(shape_ok, dim, use_gpu, fgm) ==
  IF ~shape_ok THEN "AssertionError"
  ELSE IF \E a \in 1..3 : dim[a] < 0 \/ dim[a] >= IntMax THEN "ValueError"
  ELSE IF use_gpu /\ fgm /\ NVox(dim) = 0 THEN "LogicError"
  ELSE "none"

HostArrays(dim) ==
  LET V == 0..(NVox(dim) - 1)
  IN  [tsdf |-> [v \in V |-> R(1)],
       occl |-> [v \in V |-> R(-100)],
       weight |-> [v \in V |-> 0],
       color |-> [v \in V |-> 0],
       mask |-> [v \in V |-> 0]]

\* cuda.mem_alloc + memcpy_htod of the host arrays; cell N stands for the
\* word after each buffer
DeviceArrays(dim) ==
  LET C == 0..NVox(dim)
  IN  [tsdf |-> [v \in C |-> R(1)],
       occl |-> [v \in C |-> R(-100)],
       weight |-> [v \in C |-> 0],
       color |-> [v \in C |-> 0],
       mask |-> [v \in C |-> 0]]

\* the object __init__ leaves behind
NewVolume(bnds, size, use_gpu, fgm, dim) ==
  [gpu_mode |-> use_gpu /\ fgm,
   vol_dim |-> dim,
   vol_origin |-> <<bnds[1][1], bnds[2][1], bnds[3][1]>>,
   voxel_size |-> size,
   trunc_margin |-> 5 * size,
   cpu |-> HostArrays(dim),
   gpu |-> IF use_gpu /\ fgm THEN DeviceArrays(dim) ELSE <<>>]

Voxels == 0..(NVox(vol_dim) - 1)

Fresh(dim) == [v \in 0..(NVox(dim) - 1) |-> FALSE]

-----------------------------------------------------------------------------
(* Inputs *)

I3 == <<<<1, 0, 0>>, <<0, 1, 0>>, <<0, 0, 1>>>>
RotX180 == <<<<1, 0, 0>>, <<0, -1, 0>>, <<0, 0, -1>>>>

CamPositions == {<<-1, 0, -2>>, <<0, 0, 0>>, <<3, 0, -3>>, <<0, 0, -9>>}
CamPoses == {Pose(I3, t) : t \in CamPositions} \cup {Pose(RotX180, <<0, 0, -3>>)}
\* depth camera and colour camera poses of a frame: every depth camera with
\* the colour camera that sees the volume, one with the colour camera that
\* does not
Views ==
  {<<cp, Pose(I3, <<-1, 0, -2>>)>> : cp \in CamPoses}
    \cup {<<Pose(I3, <<-1, 0, -2>>), Pose(I3, <<3, 0, -3>>)>>}
Intrinsics == {Intr(1, 1, 0, 0)}

\* depth image, mask image and colour image of a frame (1 row, 2 columns)
Pictures ==
  {[depth_im |-> << <<3, 9>> >>, mask_im |-> << <<1, 2>> >>,
    color_im |-> << <<<<100, 150, 200>>, <<255, 255, 255>>>> >>],
   [depth_im |-> << <<9, 0>> >>, mask_im |-> << <<2, 3>> >>,
    color_im |-> << <<<<255, 255, 255>>, <<0, 0, 1>>>> >>]}
ObsWeights == {1, 2}

Frames ==
  {[color_im |-> pic.color_im, depth_im |-> pic.depth_im, mask_im |-> pic.mask_im,
    cam_intr |-> ci, cam_pose |-> vw[1], rgb_intr |-> ri, rgb_pose |-> vw[2],
    obs_weight |-> w] :
     pic \in Pictures, ci \in Intrinsics, vw \in Views, ri \in Intrinsics,
     w \in ObsWeights}

\* the volume of the main specification
VolBnds == <<<<0, 1>>, <<0, 1>>, <<0, 2>>>>
VoxelSize == 1

-----------------------------------------------------------------------------
(* State machine *)

InitInputs ==
  /\ in_shape_ok = TRUE
  /\ in_vol_bnds = VolBnds
  /\ in_voxel_size = VoxelSize
  /\ in_use_gpu \in BOOLEAN
  /\ fusion_gpu_mode \in BOOLEAN
  /\ device = Dev(MaxThreadsPerBlock, MaxGridDimX, MaxGridDimY, MaxGridDimZ)

\* the state __init__ leaves behind, with empty histories
Constructed(o) ==
  /\ gpu_mode = o.gpu_mode
  /\ vol_dim = o.vol_dim
  /\ vol_origin = o.vol_origin
  /\ voxel_size = o.voxel_size
  /\ trunc_margin = o.trunc_margin
  /\ cpu = o.cpu
  /\ gpu = o.gpu
  /\ seen_ever = Fresh(o.vol_dim)
  /\ seen_reset = Fresh(o.vol_dim)
  /\ excluded = [v \in DOMAIN Fresh(o.vol_dim) |-> TRUE]
  /\ sum_w = [v \in DOMAIN Fresh(o.vol_dim) |-> 0]
  /\ sum_ws = [v \in DOMAIN Fresh(o.vol_dim) |-> R(0)]
  /\ max_delta = [v \in DOMAIN Fresh(o.vol_dim) |-> R(-100)]

Init ==
  /\ InitInputs
  /\ constructed = "ok"
  /\ \E dim \in CtorDims(VolBnds, VoxelSize) :
       /\ CtorExc(TRUE, dim, in_use_gpu, fusion_gpu_mode) = "none"
       /\ Constructed(NewVolume(VolBnds, VoxelSize, in_use_gpu, fusion_gpu_mode, dim))
  /\ err = "none"
  /\ n_integrate = 0
  /\ n_reset = 0
  /\ n_get_volume = 0
  /\ swapped = <<>>
  /\ returned = <<>>
  /\ launched = {}

ctorVars == <<in_shape_ok, in_vol_bnds, in_voxel_size, in_use_gpu, fusion_gpu_mode,
              device>>
cfgVars == <<constructed, gpu_mode, vol_dim, vol_origin, voxel_size, trunc_margin>>

\* what the claim about the frustum calls out of view, with the pixel p the
\* backend computes
OutOfView(cam_pt, p, f) ==
  \/ cam_pt[3] <= 0
  \/ ~InImage(p, f)
  \/ At(f.depth_im, p[1], p[2]) = 0

\* the arrays and the histories that integrate changes
Fused ==
  [cpu |-> cpu, gpu |-> gpu, err |-> err, seen_ever |-> seen_ever,
   seen_reset |-> seen_reset, excluded |-> excluded, sum_w |-> sum_w,
   sum_ws |-> sum_ws, max_delta |-> max_delta]

\* the histories after a frame: seen[v], updated[v], dist[v], delta[v] and
\* out[v] say what the frame did at voxel v
History(S, f, seen, updated, dist, delta, out) ==
  [seen_ever |-> [v \in Voxels |-> S.seen_ever[v] \/ seen[v]],
   seen_reset |-> [v \in Voxels |-> S.seen_reset[v] \/ seen[v]],
   excluded |-> [v \in Voxels |-> S.excluded[v] /\ out[v]],
   sum_w |-> [v \in Voxels |-> IF updated[v] THEN S.sum_w[v] + f.obs_weight
                               ELSE S.sum_w[v]],
   sum_ws |-> [v \in Voxels |->
                 IF updated[v]
                 THEN Norm(RAdd(S.sum_ws[v], RMul(R(f.obs_weight), dist[v])))
                 ELSE S.sum_ws[v]],
   max_delta |-> [v \in Voxels |-> IF seen[v] THEN RMax(S.max_delta[v], R(delta[v]))
                                   ELSE S.max_delta[v]]]

WithHistory(cpu_new, gpu_new, exc, h) ==
  [cpu |-> cpu_new, gpu |-> gpu_new, err |-> exc, seen_ever |-> h.seen_ever,
   seen_reset |-> h.seen_reset, excluded |-> h.excluded, sum_w |-> h.sum_w,
   sum_ws |-> h.sum_ws, max_delta |-> h.max_delta]

GpuHistory(S, f, o) ==
  History(S, f,
          [v \in Voxels |-> o[v].observed],
          [v \in Voxels |-> o[v].updated],
          [v \in Voxels |-> o[v].dist],
          [v \in Voxels |-> o[v].depth_diff],
          [v \in Voxels |-> OutOfView(o[v].cam_pt, o[v].pixel, f)])

\* integrate(f), GPU mode
IntegrateOnGpu(S, f) ==
  WithHistory(S.cpu, GpuIntegrate(S.gpu, f), "none",
              GpuHistory(S, f, [v \in Voxels |-> GpuVoxel(v, f)]))

CpuHistory(S, f, c, exc) ==
  History(S, f,
          [v \in Voxels |-> c[v].valid_pts],
          [v \in Voxels |-> c[v].valid_pts /\ exc # "NameError"],
          [v \in Voxels |-> c[v].dist],
          [v \in Voxels |-> c[v].depth_diff],
          [v \in Voxels |-> OutOfView(c[v].cam_pt, c[v].pix, f)])

CpuResult(S, f, r) ==
  WithHistory(r.H, S.gpu, r.exc,
              CpuHistory(S, f, [v \in Voxels |-> CpuVoxel(v, f)], r.exc))

\* integrate(f), CPU mode
IntegrateOnCpu(S, f) == CpuResult(S, f, CpuIntegrate(S.cpu, f))

\* if self.gpu_mode: ... else: ...
IntegrateCall(S, f) == IF gpu_mode THEN IntegrateOnGpu(S, f) ELSE IntegrateOnCpu(S, f)

SetFused(S) ==
  /\ cpu' = S.cpu
  /\ gpu' = S.gpu
  /\ err' = S.err
  /\ seen_ever' = S.seen_ever
  /\ seen_reset' = S.seen_reset
  /\ excluded' = S.excluded
  /\ sum_w' = S.sum_w
  /\ sum_ws' = S.sum_ws
  /\ max_delta' = S.max_delta

\* the model admits n more integrate calls
CanIntegrate(n) == constructed = "ok" /\ n_integrate + n <= MaxIntegrate

\* the kernel threads one integrate call launches
Launched == IF gpu_mode THEN LaunchThreads(vol_dim) ELSE {}

Integrate(f) ==
  /\ CanIntegrate(1)
  /\ SetFused(IntegrateCall(Fused, f))
  /\ n_integrate' = n_integrate + 1
  /\ swapped' = <<>>
  /\ launched' = Launched
  /\ UNCHANGED <<ctorVars, cfgVars, n_reset, n_get_volume, returned>>

\* the grid as the backend in use holds it
Grid(S) == IF gpu_mode THEN S.gpu ELSE S.cpu

\* the frames fs integrated one after the other
RECURSIVE IntegrateSeq(_, _)
IntegrateSeq(S, fs) ==
  IF fs = <<>> THEN S ELSE IntegrateSeq(IntegrateCall(S, Head(fs)), Tail(fs))

MaskOccl(grid) == [mask |-> grid.mask, occl |-> grid.occl]

\* integrate(a) followed by integrate(b); the history records the mask and
\* the occlusion that integrate(b) followed by integrate(a) leaves
IntegrateTwice(a, b) ==
  /\ CanIntegrate(2)
  /\ SetFused(IntegrateSeq(Fused, <<a, b>>))
  /\ n_integrate' = n_integrate + 2
  /\ swapped' = MaskOccl(Grid(IntegrateSeq(Fused, <<b, a>>)))
  /\ launched' = Launched
  /\ UNCHANGED <<ctorVars, cfgVars, n_reset, n_get_volume, returned>>

\* memcpy_htod(dst, src): the N words of the host array overwrite the buffer
MemcpyHtoD(dst, src) == [i \in DOMAIN dst |-> IF i \in DOMAIN src THEN src[i] ELSE dst[i]]

\* memcpy_dtoh(dst, src): the N words of the buffer overwrite the host array
MemcpyDtoH(dst, src) == [i \in DOMAIN dst |-> src[i]]

\* variant: the commented-out reset of the tsdf volume is active
ResetVisibleHost_Tsdf(H) ==
  [H EXCEPT !.weight = [v \in DOMAIN @ |-> 0],
            !.mask = [v \in DOMAIN @ |-> 0],
            !.tsdf = [v \in DOMAIN @ |-> R(1)]]

ResetVisibleHost(H) ==
  [H EXCEPT !.weight = [v \in DOMAIN @ |-> 0],
            !.mask = [v \in DOMAIN @ |-> 0]]

ResetVisibleDevice(D, H) ==
  [D EXCEPT !.weight = MemcpyHtoD(@, H.weight),
            !.mask = MemcpyHtoD(@, H.mask)]

ResetVisible ==
  /\ constructed = "ok"
  /\ n_reset < MaxReset
  /\ cpu' = ResetVisibleHost(cpu)
  /\ gpu' = IF gpu_mode THEN ResetVisibleDevice(gpu, cpu') ELSE gpu
  /\ err' = "none"
  /\ n_reset' = n_reset + 1
  /\ seen_reset' = [v \in Voxels |-> FALSE]
  /\ swapped' = <<>>
  /\ UNCHANGED <<ctorVars, cfgVars, n_integrate, n_get_volume, seen_ever, excluded,
                 sum_w, sum_ws, max_delta, returned, launched>>

\* variant: the mask volume is not copied back
GetVolumeHost_NoMask(H, D) ==
  [H EXCEPT !.tsdf = MemcpyDtoH(@, D.tsdf),
            !.occl = MemcpyDtoH(@, D.occl),
            !.color = MemcpyDtoH(@, D.color)]

GetVolumeHost(H, D) ==
  [H EXCEPT !.tsdf = MemcpyDtoH(@, D.tsdf),
            !.occl = MemcpyDtoH(@, D.occl),
            !.color = MemcpyDtoH(@, D.color),
            !.mask = MemcpyDtoH(@, D.mask)]

\* return self._tsdf_vol_cpu, self._occl_vol_cpu, self._color_vol_cpu, self._mask_vol_cpu:
\* the caller receives the host arrays themselves
GetVolumeResult == <<"tsdf", "occl", "color", "mask">>

GetVolume ==
  /\ constructed = "ok"
  /\ n_get_volume < MaxGetVolume
  /\ cpu' = IF gpu_mode THEN GetVolumeHost(cpu, gpu) ELSE cpu
  /\ returned' = GetVolumeResult
  /\ err' = "none"
  /\ n_get_volume' = n_get_volume + 1
  /\ UNCHANGED <<ctorVars, cfgVars, gpu, n_integrate, n_reset, seen_ever, seen_reset,
                 excluded, sum_w, sum_ws, max_delta, swapped, launched>>

Next ==
  \/ CanIntegrate(1) /\ \E f \in Frames : Integrate(f)
  \/ ResetVisible
  \/ GetVolume

Spec == Init /\ [][Next]_vars

\* two frames at a time, to compare the two orders
PairFrames ==
  {f \in Frames :
     /\ f.rgb_pose = Pose(I3, <<-1, 0, -2>>)
     /\ f.cam_pose \in {Pose(I3, <<-1, 0, -2>>), Pose(I3, <<0, 0, 0>>), Pose(I3, <<0, 0, -9>>)}}

\* a single frame is integrated only while a pair can still follow it
NextPairs ==
  \/ CanIntegrate(2) /\ \E f \in Frames : Integrate(f)
  \/ CanIntegrate(2) /\ \E a \in PairFrames, b \in PairFrames : IntegrateTwice(a, b)
  \/ ResetVisible

SpecPairs == Init /\ [][NextPairs]_vars

\* construction from arbitrary arguments
MaxCoord == 1
CtorVoxelSizes == {-1, 0, 1, 2}
CtorBounds == {<<bx, by, bz>> : bx \in (0..MaxCoord) \X (0..MaxCoord),
                                by \in (0..MaxCoord) \X (0..MaxCoord),
                                bz \in (0..MaxCoord) \X (0..MaxCoord)}

InitCtor ==
  /\ in_shape_ok \in BOOLEAN
  /\ in_vol_bnds \in CtorBounds
  /\ in_voxel_size \in CtorVoxelSizes
  /\ in_use_gpu \in BOOLEAN
  /\ fusion_gpu_mode \in BOOLEAN
  /\ device = Dev(MaxThreadsPerBlock, MaxGridDimX, MaxGridDimY, MaxGridDimZ)
  /\ constructed = "pending"
  /\ gpu_mode = FALSE
  /\ vol_dim = <<>>
  /\ vol_origin = <<>>
  /\ voxel_size = 0
  /\ trunc_margin = 0
  /\ cpu = <<>>
  /\ gpu = <<>>
  /\ seen_ever = <<>>
  /\ seen_reset = <<>>
  /\ excluded = <<>>
  /\ sum_w = <<>>
  /\ sum_ws = <<>>
  /\ max_delta = <<>>
  /\ err = "none"
  /\ n_integrate = 0
  /\ n_reset = 0
  /\ n_get_volume = 0
  /\ swapped = <<>>
  /\ returned = <<>>
  /\ launched = {}

\* TSDFVolume(vol_bnds, voxel_size, use_gpu)
Construct ==
  /\ constructed = "pending"
  /\ \E dim \in CtorDims(in_vol_bnds, in_voxel_size) :
       LET exc == CtorExc(in_shape_ok, dim, in_use_gpu, fusion_gpu_mode)
           o == NewVolume(in_vol_bnds, in_voxel_size, in_use_gpu, fusion_gpu_mode, dim)
       IN  IF exc = "none"
           THEN /\ constructed' = "ok"
                /\ err' = "none"
                /\ gpu_mode' = o.gpu_mode
                /\ vol_dim' = o.vol_dim
                /\ vol_origin' = o.vol_origin
                /\ voxel_size' = o.voxel_size
                /\ trunc_margin' = o.trunc_margin
                /\ cpu' = o.cpu
                /\ gpu' = o.gpu
                /\ seen_ever' = Fresh(dim)
                /\ seen_reset' = Fresh(dim)
                /\ excluded' = [v \in DOMAIN Fresh(dim) |-> TRUE]
                /\ sum_w' = [v \in DOMAIN Fresh(dim) |-> 0]
                /\ sum_ws' = [v \in DOMAIN Fresh(dim) |-> R(0)]
                /\ max_delta' = [v \in DOMAIN Fresh(dim) |-> R(-100)]
           ELSE /\ constructed' = "failed"
                /\ err' = exc
                /\ UNCHANGED <<gpu_mode, vol_dim, vol_origin, voxel_size, trunc_margin,
                               cpu, gpu, seen_ever, seen_reset, excluded, sum_w, sum_ws,
                               max_delta>>
  /\ UNCHANGED <<ctorVars, n_integrate, n_reset, n_get_volume, swapped, returned,
                 launched>>

NextCtor == Construct

SpecCtor == InitCtor /\ [][NextCtor]_vars

-----------------------------------------------------------------------------
(* Properties *)

\* the grid of the backend in use, in the current state
G == Grid(Fused)

Built == constructed = "ok"

\* C1: on either backend, after any sequence of integrate calls with
\* obs_weight > 0 and reset_visible calls, every voxel's tsdf lies in [-1, 1].
C1_TsdfInRange ==
  Built => \A v \in Voxels : RLe(R(-1), G.tsdf[v]) /\ RLe(G.tsdf[v], R(1))

\* a voxel whose tsdf was updated with a disparity beyond the truncation margin
C1_Witness ==
  /\ Built /\ gpu_mode
  /\ \E v \in Voxels : sum_w[v] > 0 /\ G.tsdf[v] = R(1) /\ RLt(R(trunc_margin), max_delta[v])

\* C2: a voxel that in every frame projects outside the image, or has
\* camera depth qz <= 0, or reads depth 0, keeps its five initial values.
C2_Claim ==
  Built => \A v \in Voxels :
    excluded[v] =>
      /\ G.tsdf[v] = R(1)
      /\ G.weight[v] = 0
      /\ G.occl[v] = R(-100)
      /\ G.color[v] = 0
      /\ G.mask[v] = 0

\* C3: reset_visible zeroes weight and mask at every voxel, on the host and
\* on the device, and leaves tsdf, occl, color, vol_dim, vol_origin and
\* voxel_size as they were.
C3_ResetVisible ==
  [][n_reset' # n_reset =>
       /\ \A v \in Voxels : cpu'.weight[v] = 0 /\ cpu'.mask[v] = 0
       /\ gpu_mode => \A v \in Voxels : gpu'.weight[v] = 0 /\ gpu'.mask[v] = 0
       /\ cpu'.tsdf = cpu.tsdf /\ cpu'.occl = cpu.occl /\ cpu'.color = cpu.color
       /\ gpu_mode =>
            gpu'.tsdf = gpu.tsdf /\ gpu'.occl = gpu.occl /\ gpu'.color = gpu.color
       /\ vol_dim' = vol_dim /\ vol_origin' = vol_origin /\ voxel_size' = voxel_size
    ]_vars

\* a reset after a voxel was fused: its weight and mask are gone, its tsdf,
\* occl and host copy stay
C3_Witness ==
  /\ Built /\ gpu_mode /\ n_reset > 0
  /\ \E v \in Voxels :
       /\ seen_ever[v] /\ ~seen_reset[v]
       /\ gpu.weight[v] = 0 /\ gpu.mask[v] = 0
       /\ gpu.tsdf[v] # R(1) /\ cpu.tsdf[v] # R(1)

\* C4: from a fresh grid, a voxel updated by integrate calls with weights
\* w_1..w_n and post-truncation distances s_1..s_n has
\* tsdf = (sum w_i s_i) / (sum w_i) and weight = sum w_i.
C4_WeightedMean ==
  (Built /\ n_reset = 0) =>
    \A v \in Voxels :
      sum_w[v] > 0 =>
        /\ G.tsdf[v] = Norm(RDiv(sum_ws[v], R(sum_w[v])))
        /\ G.weight[v] = sum_w[v]

\* a voxel updated twice, with different weights, to a value other than the
\* initial one
C4_Witness ==
  /\ Built /\ n_reset = 0 /\ n_integrate = 2
  /\ \E v \in Voxels : sum_w[v] = 3 /\ G.tsdf[v] # R(1) /\ G.tsdf[v] # R(0)

\* the host arrays the CPU backend holds for the grid D of the device
HostOf(D) == [k \in DOMAIN D |-> [v \in Voxels |-> D[k][v]]]

\* C5: for the same frame on the same grid, the GPU path and the CPU path
\* leave the same weight and mask at every voxel, and the same tsdf at every
\* voxel whose delta / trunc_margin lies in [-1, 1].
C5_Claim ==
  (Built /\ gpu_mode) =>
    \A f \in Frames :
      LET D == GpuIntegrate(gpu, f)
          H == CpuIntegrate(HostOf(gpu), f).H
      IN  \A v \in Voxels :
            /\ D.weight[v] = H.weight[v]
            /\ D.mask[v] = H.mask[v]
            /\ (/\ GpuVoxel(v, f).observed
                /\ GpuVoxel(v, f).depth_diff >= -trunc_margin
                /\ GpuVoxel(v, f).depth_diff <= trunc_margin)
               => D.tsdf[v] = H.tsdf[v]

\* C6 (as claimed, on the GPU backend): occl = -100 iff the voxel has not
\* been observed in-frustum with non-zero depth since the last reset_visible.
C6_Claim ==
  (Built /\ gpu_mode) =>
    \A v \in Voxels : (G.occl[v] = R(-100)) <=> ~seen_reset[v]

\* C6 (amended): reset_visible leaves occl alone; a voxel never observed
\* since construction has occl = -100, and on the GPU backend occl is the
\* maximum of -100 and all disparities observed at the voxel since
\* construction.
C6_OcclHistory ==
  Built => \A v \in Voxels :
    /\ ~seen_ever[v] => G.occl[v] = R(-100)
    /\ gpu_mode => G.occl[v] = max_delta[v]

\* a voxel observed before the reset and not since, whose occl is the larger
\* of two observed disparities
C6_Witness ==
  /\ Built /\ gpu_mode /\ n_reset > 0 /\ n_integrate = 2
  /\ \E v \in Voxels :
       /\ seen_ever[v] /\ ~seen_reset[v]
       /\ RLt(R(0), G.occl[v])
       /\ sum_w[v] = 3

\* the arrays a caller holds after get_volume
ViewOf(ret, H) == [k \in DOMAIN ret |-> H[ret[k]]]

\* C7 (as claimed): the values in the arrays a get_volume call returned are
\* not changed by any later call.
C7_Claim ==
  [][returned # <<>> => ViewOf(returned', cpu') = ViewOf(returned, cpu)]_vars

\* C7 (amended): get_volume returns the volume's own host arrays; when it
\* returns they hold the current tsdf, occl, color and mask of every voxel
\* (copied from the device on the GPU backend).
C7_ReturnsCurrent ==
  [][n_get_volume' # n_get_volume =>
       /\ returned' = <<"tsdf", "occl", "color", "mask">>
       /\ \A k \in DOMAIN returned' :
            ViewOf(returned', cpu')[k] = [v \in Voxels |-> Grid(Fused)[returned'[k]][v]]
    ]_vars

\* a get_volume on the GPU backend that fetched fused values
C7_Witness ==
  /\ Built /\ gpu_mode /\ n_get_volume > 0 /\ returned # <<>>
  /\ \E v \in Voxels :
       /\ ViewOf(returned, cpu)[4][v] # 0
       /\ ViewOf(returned, cpu)[1][v] # R(1)
       /\ ViewOf(returned, cpu)[4][v] = gpu.mask[v]

\* C8: construction fails whenever vol_bnds is not of shape (3, 2), or
\* min >= max on some axis, or voxel_size is not positive.
C8_Claim ==
  (\/ ~in_shape_ok
   \/ \E a \in 1..3 : in_vol_bnds[a][1] >= in_vol_bnds[a][2]
   \/ in_voxel_size <= 0)
  => constructed # "ok"

\* C9: after any sequence of integrate calls with obs_weight > 0 and 8-bit
\* colours, every voxel's packed colour is a non-negative integer below 2^24
\* whose unpacked channels lie in [0, 255].
C9_ColorRange ==
  Built => \A v \in Voxels :
    /\ G.color[v] \in 0..(256 * 256 * 256 - 1)
    /\ UnpackB(G.color[v]) \in 0..255
    /\ UnpackG(G.color[v]) \in 0..255
    /\ UnpackR(G.color[v]) \in 0..255

\* a voxel whose colour is the running mean of two different colours
C9_Witness ==
  /\ Built /\ gpu_mode
  /\ \E v \in Voxels :
       /\ G.weight[v] = 3
       /\ UnpackB(G.color[v]) \notin {0, 1, 200, 255}

C11_Claim ==
  [][(/\ Built /\ ~gpu_mode
      /\ n_integrate' = n_integrate + 1
      /\ \E v \in Voxels : seen_reset'[v] /\ ~seen_reset[v])
     => /\ err' = "none"
        /\ \A v \in Voxels :
             (seen_reset'[v] /\ ~seen_reset[v]) => cpu'.weight[v] > cpu.weight[v]
    ]_vars

\* what the backend in use computes for voxel v from frame f: whether v is
\* in-frustum with non-zero depth, its pixel and its disparity delta
Row(v, f) ==
  IF gpu_mode
  THEN [seen |-> GpuVoxel(v, f).observed, pixel |-> GpuVoxel(v, f).pixel,
        delta |-> GpuVoxel(v, f).depth_diff]
  ELSE [seen |-> CpuVoxel(v, f).valid_pts, pixel |-> CpuVoxel(v, f).pix,
        delta |-> CpuVoxel(v, f).depth_diff]

\* C12: on both backends, one integrate call, at a voxel that is in-frustum
\* with non-zero depth and delta < -trunc_margin, ORs the pixel's mask value
\* into mask, raises occl to max(occl, delta) and leaves tsdf, weight and
\* color unchanged.
C12_Claim ==
  Built =>
    \A f \in Frames : \A v \in Voxels :
      (Row(v, f).seen /\ Row(v, f).delta < -trunc_margin) =>
        LET after == Grid(IntegrateCall(Fused, f))
            p == Row(v, f).pixel
        IN  /\ after.mask[v] = BitOr(G.mask[v], At(f.mask_im, p[1], p[2]))
            /\ after.occl[v] = RMax(G.occl[v], R(Row(v, f).delta))
            /\ after.tsdf[v] = G.tsdf[v]
            /\ after.weight[v] = G.weight[v]
            /\ after.color[v] = G.color[v]


-----------------------------------------------------------------------------
(* Kernel launches over grids and device limits *)

MaxDim == 2

\* bounds of the volumes of vol_dim (dx, dy, dz) with voxel size 1
LaunchBounds ==
  {<<<<0, dx>>, <<0, dy>>, <<0, dz>>>> : dx \in 1..MaxDim, dy \in 1..MaxDim, dz \in 1..MaxDim}

Devices ==
  {Dev(t, gx, gy, gz) : t \in 1..MaxThreadsPerBlock, gx \in 1..MaxGridDimX,
                        gy \in 1..MaxGridDimY, gz \in 1..MaxGridDimZ}

LaunchFrames ==
  {f \in PairFrames : f.cam_pose = Pose(I3, <<0, 0, 0>>) /\ f.obs_weight = 1}

\* a GPU volume of any of the grids, on any of the devices
InitLaunch ==
  /\ in_shape_ok = TRUE
  /\ in_vol_bnds \in LaunchBounds
  /\ in_voxel_size = VoxelSize
  /\ in_use_gpu = TRUE
  /\ fusion_gpu_mode = TRUE
  /\ device \in Devices
  /\ constructed = "ok"
  /\ \E dim \in CtorDims(in_vol_bnds, in_voxel_size) :
       /\ CtorExc(TRUE, dim, in_use_gpu, fusion_gpu_mode) = "none"
       /\ Constructed(NewVolume(in_vol_bnds, in_voxel_size, in_use_gpu, fusion_gpu_mode, dim))
  /\ err = "none"
  /\ n_integrate = 0
  /\ n_reset = 0
  /\ n_get_volume = 0
  /\ swapped = <<>>
  /\ returned = <<>>
  /\ launched = {}

\* one integrate call
NextLaunch == CanIntegrate(MaxIntegrate) /\ \E f \in LaunchFrames : Integrate(f)

SpecLaunch == InitLaunch /\ [][NextLaunch]_vars

\* grids too large for the model to hold, as vol_dim
LargeGrids == {<<400, 400, 400>>}

\* the last voxel index of each slab of constant first coordinate
SlabEnds(dim) == {x * dim[2] * dim[3] - 1 : x \in 1..dim[1]}

\* (i, j, k) is a cell of the grid of dimensions dim
InGrid(c, dim) == \A a \in 1..3 : 0 <= c[a] /\ c[a] < dim[a]

\* position of cell c in the flattened C-ordered array of shape dim
RowMajor(c, dim) == c[1] * dim[2] * dim[3] + c[2] * dim[3] + c[3]

\* C13: for every grid of N >= 1 voxels and every device limit, over the
\* launches of one integrate call each voxel index in [0, N) is computed by
\* exactly one (launch, block, thread) triple, and the kernel's decomposition
\* of the index into (i, j, k) is a bijection from [0, N) onto the grid in
\* row-major order, so that no two threads write the same grid cell.  The
\* decomposition is also checked at the slab ends of the large grids.
C13_Claim ==
  /\ (Built /\ gpu_mode /\ n_integrate > 0) =>
       /\ \A i \in 0..(NVox(vol_dim) - 1) :
            Cardinality({t \in launched : t.voxel_idx = i}) = 1
       /\ \A i \in 0..(NVox(vol_dim) - 1) :
            /\ InGrid(VoxelCoords(i, vol_dim), vol_dim)
            /\ RowMajor(VoxelCoords(i, vol_dim), vol_dim) = i
       /\ \A s \in launched : \A t \in launched :
            s # t => s.voxel_idx # t.voxel_idx
  /\ \A dim \in LargeGrids : \A i \in SlabEnds(dim) :
       /\ InGrid(VoxelCoords(i, dim), dim)
       /\ RowMajor(VoxelCoords(i, dim), dim) = i


\* C14: no GPU thread writes a voxel buffer (tsdf, occl, weight, color, mask)
\* at a flat index outside [0, N): the word at index N, just past each
\* device buffer, keeps the value it had before the first integrate call.
C14_Claim ==
  (Built /\ gpu_mode) =>
    \A b \in {"tsdf", "occl", "weight", "color", "mask"} :
      gpu[b][NVox(vol_dim)] = DeviceArrays(vol_dim)[b][NVox(vol_dim)]

====
